---------------------------- MODULE Spec2Model ----------------------------
(***************************************************************************)
(* Model of sudachi_tantivy (src/src/lib.rs): the text chunk splitter      *)
(* (TextChunkIterator, rfind_end_of_sentence) and the token stream         *)
(* (SudachiTokenStream) that feeds chunks to the Sudachi analyzer.         *)
(*                                                                         *)
(* A Rust &str is modelled as a run-length encoded byte string: a sequence *)
(* of runs [b |-> byte, n |-> count] with n >= 1 and no two adjacent runs  *)
(* of the same byte, so that equal strings have equal values and a text    *)
(* longer than SUDACHI_MAX_LENGTH bytes stays a small value.  Byte indices *)
(* are 0-based as in Rust.                                                 *)
(***************************************************************************)
EXTENDS Integers, Sequences, FiniteSets, TLC

VARIABLES
    it,         \* a TextChunkIterator driven directly (text, max_chunk_size, start)
    it_log,     \* the values its next() calls returned so far, in order
    dict,       \* the dictionary the SudachiTokenizer was built with
    tokenizer,  \* the SudachiTokenizer: its token and its stateful_tokenizer
    stream,     \* the live SudachiTokenStream, or NoStream
    pc,         \* where the caller is: "idle", or inside advance(): "loop", "body"
    streams,    \* how many token_stream() calls were made
    rets,       \* what the advance() calls on the live stream returned, in order
    emitted,    \* after each advance() that returned true: the token exposed, the
                \* morpheme it was made from and the ordinal of that morpheme's chunk
    analysed,   \* the chunks the live stream passed to tokenize(), in order
    excerpt_of, \* a text handed to truncate_chars for the error log
    excerpt,    \* what truncate_chars returned for it, once called
    analyzers,  \* the StatefulTokenizer objects created so far, by identity
    tks,        \* an original SudachiTokenizer and its clone, once created
    tk_streams, \* the live token stream of each of the two, or NoStream
    tk_outs,    \* per tokenizer: results and tokens of its live stream's advance() calls
    actor       \* the tokenizer the last call was made on

chunk_vars == <<it, it_log>>
stream_vars == <<dict, tokenizer, stream, pc, streams, rets, emitted, analysed>>
trunc_vars == <<excerpt_of, excerpt>>
clone_vars == <<analyzers, tks, tk_streams, tk_outs, actor>>
aux_vars == <<trunc_vars, clone_vars>>
vars == <<it, it_log, dict, tokenizer, stream, pc, streams, rets, emitted, analysed,
          excerpt_of, excerpt, analyzers, tks, tk_streams, tk_outs, actor>>

(* ------------------------------ bytes --------------------------------- *)

\* SPACE and LETTER stand for the bytes of a text that no pattern mentions
LF == 10
CR == 13
SPACE == 32
DOT == 46
LETTER == 97
KUTEN1 == 227
KUTEN2 == 128
KUTEN3 == 130

\* usize::MAX, written as its residue modulo 2^64
USIZE_MAX == -1

U16_MAX == 65535

\* SUDACHI_MAX_LENGTH without the 3/4 scaling
SUDACHI_MAX_LENGTH_unscaled == U16_MAX

SUDACHI_MAX_LENGTH == (U16_MAX \div 4) * 3

(* ------------------------ str operations ------------------------------ *)

Run(b, n) == [b |-> b, n |-> n]

RECURSIVE StrLen(_)
StrLen(s) == IF s = <<>> THEN 0 ELSE s[1].n + StrLen(Tail(s))

RECURSIVE ByteAt(_, _)
ByteAt(s, i) == IF i < s[1].n THEN s[1].b ELSE ByteAt(Tail(s), i - s[1].n)

Concat(s, t) ==
    IF s = <<>> THEN t
    ELSE IF t = <<>> THEN s
    ELSE IF s[Len(s)].b = t[1].b
         THEN SubSeq(s, 1, Len(s) - 1)
              \o <<Run(t[1].b, s[Len(s)].n + t[1].n)>>
              \o Tail(t)
         ELSE s \o t

RECURSIVE Take(_, _)
Take(s, k) ==
    IF k = 0 \/ s = <<>> THEN <<>>
    ELSE IF k >= s[1].n THEN <<s[1]>> \o Take(Tail(s), k - s[1].n)
         ELSE <<Run(s[1].b, k)>>

RECURSIVE Drop(_, _)
Drop(s, k) ==
    IF k = 0 \/ s = <<>> THEN s
    ELSE IF k >= s[1].n THEN Drop(Tail(s), k - s[1].n)
         ELSE <<Run(s[1].b, s[1].n - k)>> \o Tail(s)

\* &s[lo..hi]
Slice(s, lo, hi) == Take(Drop(s, lo), hi - lo)

\* s.rfind("\n"): index of the last occurrence of byte b, None as -1
RECURSIVE Rfind(_, _)
Rfind(s, b) ==
    IF s = <<>> THEN -1
    ELSE IF s[Len(s)].b = b THEN StrLen(s) - 1
         ELSE Rfind(SubSeq(s, 1, Len(s) - 1), b)

EndsWith(s, p) ==
    /\ StrLen(s) >= StrLen(p)
    /\ Slice(s, StrLen(s) - StrLen(p), StrLen(s)) = p

\* a byte that is not a UTF-8 continuation byte (0x80..0xBF) starts a char
IsCharBoundary(s, i) ==
    \/ i = 0
    \/ i = StrLen(s)
    \/ /\ i < StrLen(s)
       /\ (ByteAt(s, i) < 128 \/ ByteAt(s, i) >= 192)

RECURSIVE FloorCharBoundary(_, _)
FloorCharBoundary(s, i) ==
    IF i >= StrLen(s) THEN StrLen(s)
    ELSE IF IsCharBoundary(s, i) THEN i
         ELSE FloorCharBoundary(s, i - 1)

(* -------------------- the sentence patterns --------------------------- *)

Str1(b) == <<Run(b, 1)>>
KUTEN == Concat(Concat(Str1(KUTEN1), Str1(KUTEN2)), Str1(KUTEN3))
PAT_DOT_LF == Concat(Str1(DOT), Str1(LF))
PAT_DOT_CRLF == Concat(Concat(Str1(DOT), Str1(CR)), Str1(LF))
PAT_KUTEN_LF == Concat(KUTEN, Str1(LF))
PAT_KUTEN_CRLF == Concat(Concat(KUTEN, Str1(CR)), Str1(LF))
PAT_LF_LF == Concat(Str1(LF), Str1(LF))
PAT_CRLF_CRLF == Concat(Concat(Str1(CR), Str1(LF)), Concat(Str1(CR), Str1(LF)))

\* EndsSentence without the ".\r\n" pattern
EndsSentence_no_dot_crlf(s) ==
    \/ EndsWith(s, PAT_DOT_LF)
    \/ EndsWith(s, PAT_KUTEN_LF)
    \/ EndsWith(s, PAT_KUTEN_CRLF)
    \/ EndsWith(s, PAT_LF_LF)
    \/ EndsWith(s, PAT_CRLF_CRLF)

EndsSentence(s) ==
    \/ EndsWith(s, PAT_DOT_LF)
    \/ EndsWith(s, PAT_DOT_CRLF)
    \/ EndsWith(s, PAT_KUTEN_LF)
    \/ EndsWith(s, PAT_KUTEN_CRLF)
    \/ EndsWith(s, PAT_LF_LF)
    \/ EndsWith(s, PAT_CRLF_CRLF)

\* the while-let loop of rfind_end_of_sentence; text is the shrinking slice
RECURSIVE rfind_loop(_)
rfind_loop(text) ==
    LET i == Rfind(text, LF) IN
    IF i = -1 THEN StrLen(text)
    ELSE LET s == Slice(text, 0, i + 1) IN
         IF EndsSentence(s) THEN i + 1
         ELSE rfind_loop(Slice(text, 0, i))

rfind_end_of_sentence(txt) == rfind_loop(txt)

(* ------------------------ TextChunkIterator --------------------------- *)

None == [some |-> FALSE]
Some(c) == [some |-> TRUE, chunk |-> c]

TextChunkIterator_new(text, max_chunk_size) ==
    [text |-> text, max_chunk_size |-> max_chunk_size, start |-> 0]

RECURSIVE CeilCharBoundary(_, _)
CeilCharBoundary(s, i) ==
    IF i >= StrLen(s) THEN StrLen(s)
    ELSE IF IsCharBoundary(s, i) THEN i
         ELSE CeilCharBoundary(s, i + 1)

\* ChunkLimit rounding up to the next character boundary
ChunkLimit_ceil(self) ==
    CeilCharBoundary(self.text, self.start + self.max_chunk_size)

\* ChunkLimit taking the raw byte limit, not floored to a character boundary
ChunkLimit_raw(self) ==
    IF self.start + self.max_chunk_size >= StrLen(self.text) THEN StrLen(self.text)
    ELSE self.start + self.max_chunk_size

ChunkLimit(self) ==
    FloorCharBoundary(self.text, self.start + self.max_chunk_size)

\* TextChunkIterator_next moving the cursor to the byte limit after a cut
TextChunkIterator_next_to_limit(self) ==
    IF self.start < StrLen(self.text)
    THEN LET limit == FloorCharBoundary(self.text, self.start + self.max_chunk_size) IN
         IF limit >= StrLen(self.text)
         THEN [it  |-> [self EXCEPT !.start = StrLen(self.text)],
               ret |-> Some(Slice(self.text, self.start, StrLen(self.text)))]
         ELSE LET part == Slice(self.text, self.start, limit)
                  end == rfind_loop(part)
              IN [it  |-> [self EXCEPT !.start = limit],
                  ret |-> Some(Slice(self.text, self.start, self.start + end))]
    ELSE [it |-> self, ret |-> None]

\* Iterator::next: the iterator after the call and the value returned
TextChunkIterator_next(self) ==
    IF self.start < StrLen(self.text)
    THEN LET limit == ChunkLimit(self) IN
         IF limit >= StrLen(self.text)
         THEN [it  |-> [self EXCEPT !.start = StrLen(self.text)],
               ret |-> Some(Slice(self.text, self.start, StrLen(self.text)))]
         ELSE LET part == Slice(self.text, self.start, limit)
                  end == rfind_end_of_sentence(part)
              IN [it  |-> [self EXCEPT !.start = self.start + end],
                  ret |-> Some(Slice(self.text, self.start, self.start + end))]
    ELSE [it |-> self, ret |-> None]

RECURSIVE FromChars(_)
FromChars(cs) ==
    IF cs = <<>> THEN <<>> ELSE Concat(cs[1], FromChars(Tail(cs)))


(* --------------------------- the analyzer ----------------------------- *)

\* The Sudachi analyzer and its dictionary are not part of the repository.
\* A dictionary is modelled by the bytes it tags as whitespace and the bytes
\* on which do_tokenize fails; the analysis of a text is a function of the
\* dictionary and the text: one morpheme per run of an ASCII byte and one per
\* three-byte character, in order, covering the text.

WHITESPACE == "kuhaku"     \* the part-of-speech tag compared against at lib.rs:100
NOUN == "meishi"

CharWidth(b) == IF b >= 224 THEN 3 ELSE 1

RECURSIVE Segment(_, _, _)
Segment(d, rest, off) ==
    IF rest = <<>> THEN <<>>
    ELSE LET w == IF CharWidth(rest[1].b) = 1 THEN rest[1].n ELSE CharWidth(rest[1].b)
             m == [begin   |-> off,
                   end     |-> off + w,
                   pos     |-> IF rest[1].b \in d.ws THEN <<WHITESPACE>> ELSE <<NOUN>>,
                   surface |-> Take(rest, w)]
         IN <<m>> \o Segment(d, Drop(rest, w), off + w)

\* Mode::A gives the short units of Segment; in Mode::C the analyzer returns
\* long units: adjacent non-whitespace short units form one morpheme.
MODE_A == "A"
MODE_C == "C"

RECURSIVE LongUnits(_)
LongUnits(ms) ==
    IF Len(ms) <= 1 THEN ms
    ELSE IF ms[1].pos # <<WHITESPACE>> /\ ms[2].pos # <<WHITESPACE>>
         THEN LongUnits(<<[begin   |-> ms[1].begin,
                           end     |-> ms[2].end,
                           pos     |-> <<NOUN>>,
                           surface |-> Concat(ms[1].surface, ms[2].surface)]>>
                        \o Tail(Tail(ms)))
         ELSE <<ms[1]>> \o LongUnits(Tail(ms))

\* the morphemes of a text in a split mode
SegmentIn(mode, d, text) ==
    IF mode = MODE_A THEN Segment(d, text, 0) ELSE LongUnits(Segment(d, text, 0))

do_tokenize_ok(d, text) == \A k \in 1..Len(text) : text[k].b \notin d.fail

(* ------------------------- SudachiTokenizer --------------------------- *)

Token_default ==
    [offset_from |-> 0, offset_to |-> 0, position |-> USIZE_MAX, text |-> <<>>,
     position_length |-> 1]

\* StatefulTokenizer::new(dict, mode): no input, debug off
StatefulTokenizer_new(mode) == [input |-> <<>>, mode |-> mode, debug |-> FALSE]

SudachiTokenizer_new(d) ==
    [token |-> Token_default,
     stateful_tokenizer |-> StatefulTokenizer_new(MODE_A),
     debug |-> FALSE]

set_debug(self, debug) ==
    [self EXCEPT !.debug = debug, !.stateful_tokenizer.debug = debug]

set_mode(self, mode) == [self EXCEPT !.stateful_tokenizer.mode = mode]

\* Clone::clone: a new analyzer in the mode of the original's, the debug flag
\* of the original on both, a default token
clone(self) ==
    [token |-> Token_default,
     stateful_tokenizer |->
         [StatefulTokenizer_new(self.stateful_tokenizer.mode) EXCEPT !.debug = self.debug],
     debug |-> self.debug]

\* tokenize(text, out): the tokenizer after the call and the morpheme list out
SudachiTokenizer_tokenize(self, d, text, out) ==
    [self |-> [self EXCEPT !.token = Token_default,
                           !.stateful_tokenizer.input = text],
     out  |-> IF do_tokenize_ok(d, text)
              THEN SegmentIn(self.stateful_tokenizer.mode, d, text)
              ELSE out]

(* ------------------------ SudachiTokenStream -------------------------- *)

NoStream == [live |-> FALSE]

SudachiTokenStream_new(text) ==
    [live           |-> TRUE,
     chunks         |-> TextChunkIterator_new(text, SUDACHI_MAX_LENGTH),
     chunk_size     |-> 0,
     morphemes      |-> <<>>,
     index          |-> 0,
     offset         |-> 0,
     token_position |-> 0]

\* has_next leaving offset where it is when a chunk is pulled
has_next_offset_kept(self, tk, d) ==
    IF self.index < Len(self.morphemes)
    THEN [stream |-> self, tokenizer |-> tk, ret |-> TRUE, pulled |-> None]
    ELSE LET n == TextChunkIterator_next(self.chunks) IN
         IF n.ret.some
         THEN LET chunk == n.ret.chunk
                  t == SudachiTokenizer_tokenize(tk, d, chunk, <<>>)
              IN [stream |-> [self EXCEPT !.chunks = n.it,
                                          !.index = 0,
                                          !.offset = self.offset,
                                          !.chunk_size = StrLen(chunk),
                                          !.morphemes = t.out],
                  tokenizer |-> t.self,
                  ret |-> t.out # <<>>,
                  pulled |-> Some(chunk)]
         ELSE [stream |-> [self EXCEPT !.chunks = n.it], tokenizer |-> tk,
               ret |-> FALSE, pulled |-> None]

\* has_next advancing offset by the length of the chunk just pulled
has_next_offset_by_new(self, tk, d) ==
    IF self.index < Len(self.morphemes)
    THEN [stream |-> self, tokenizer |-> tk, ret |-> TRUE, pulled |-> None]
    ELSE LET n == TextChunkIterator_next(self.chunks) IN
         IF n.ret.some
         THEN LET chunk == n.ret.chunk
                  t == SudachiTokenizer_tokenize(tk, d, chunk, <<>>)
              IN [stream |-> [self EXCEPT !.chunks = n.it,
                                          !.index = 0,
                                          !.offset = self.offset + StrLen(chunk),
                                          !.chunk_size = StrLen(chunk),
                                          !.morphemes = t.out],
                  tokenizer |-> t.self,
                  ret |-> t.out # <<>>,
                  pulled |-> Some(chunk)]
         ELSE [stream |-> [self EXCEPT !.chunks = n.it], tokenizer |-> tk,
               ret |-> FALSE, pulled |-> None]

\* has_next without morphemes.clear() before tokenize
has_next_no_clear(self, tk, d) ==
    IF self.index < Len(self.morphemes)
    THEN [stream |-> self, tokenizer |-> tk, ret |-> TRUE, pulled |-> None]
    ELSE LET n == TextChunkIterator_next(self.chunks) IN
         IF n.ret.some
         THEN LET chunk == n.ret.chunk
                  t == SudachiTokenizer_tokenize(tk, d, chunk, self.morphemes)
              IN [stream |-> [self EXCEPT !.chunks = n.it,
                                          !.index = 0,
                                          !.offset = self.offset + self.chunk_size,
                                          !.chunk_size = StrLen(chunk),
                                          !.morphemes = t.out],
                  tokenizer |-> t.self,
                  ret |-> t.out # <<>>,
                  pulled |-> Some(chunk)]
         ELSE [stream |-> [self EXCEPT !.chunks = n.it], tokenizer |-> tk,
               ret |-> FALSE, pulled |-> None]

\* has_next(): the stream and the tokenizer after the call, the value
\* returned, and the chunk handed to tokenize() if one was pulled
has_next(self, tk, d) ==
    IF self.index < Len(self.morphemes)
    THEN [stream |-> self, tokenizer |-> tk, ret |-> TRUE, pulled |-> None]
    ELSE LET n == TextChunkIterator_next(self.chunks) IN
         IF n.ret.some
         THEN LET chunk == n.ret.chunk
                  t == SudachiTokenizer_tokenize(tk, d, chunk, <<>>)
              IN [stream |-> [self EXCEPT !.chunks = n.it,
                                          !.index = 0,
                                          !.offset = self.offset + self.chunk_size,
                                          !.chunk_size = StrLen(chunk),
                                          !.morphemes = t.out],
                  tokenizer |-> t.self,
                  ret |-> t.out # <<>>,
                  pulled |-> Some(chunk)]
         ELSE [stream |-> [self EXCEPT !.chunks = n.it], tokenizer |-> tk,
               ret |-> FALSE, pulled |-> None]

wrapping_add(x, y) == IF x = USIZE_MAX /\ y = 1 THEN 0 ELSE x + y

IsWhitespace(m) == m.pos # <<>> /\ m.pos[1] = WHITESPACE

\* EmitToken with chunk-relative offsets
EmitToken_chunk_relative(self, tk, m) ==
    [tk.token EXCEPT !.position = self.token_position,
                     !.offset_from = m.begin,
                     !.offset_to = m.end + 1,
                     !.text = Concat(<<>>, m.surface)]

\* the token fields advance() writes for morpheme m
EmitToken(self, tk, m) ==
    [tk.token EXCEPT !.position = self.token_position,
                     !.offset_from = self.offset + m.begin,
                     !.offset_to = self.offset + m.end + 1,
                     !.text = Concat(<<>>, m.surface)]

(* -------------------------- the token stream --------------------------- *)

FillSlack == 4
MaxStreams == 1
MaxAdvance == 8

Lit(bs) == FromChars([k \in 1..Len(bs) |-> Str1(bs[k])])

Heads == {<<>>, Lit(<<LETTER, DOT, LF>>), Lit(<<LF>>), Lit(<<LETTER, SPACE>>)}
Tails == {<<>>, Lit(<<DOT, LF, LETTER>>), Lit(<<DOT, CR, LF, LETTER, LETTER>>),
          Concat(KUTEN, Lit(<<LF, LF, DOT>>))}
Fills == {0} \cup ((SUDACHI_MAX_LENGTH - FillSlack)..(SUDACHI_MAX_LENGTH + 1))

DocTexts ==
    {Concat(Concat(h, IF n = 0 THEN <<>> ELSE <<Run(LETTER, n)>>), t) :
        h \in Heads, n \in Fills, t \in Tails}

Dicts == [ws : {{SPACE, LF, CR}}, fail : {{}, {CR}}]

TruncUnused ==
    /\ excerpt_of = <<>>
    /\ excerpt = None

NoTokenizer == [live |-> FALSE]
NoOuts == [rets |-> <<>>, tokens |-> <<>>]
ORIGINAL == "original"
CLONE == "clone"
Tokenizers == {ORIGINAL, CLONE}

CloneUnused ==
    /\ analyzers = <<>>
    /\ tks = [i \in Tokenizers |-> NoTokenizer]
    /\ tk_streams = [i \in Tokenizers |-> NoStream]
    /\ tk_outs = [i \in Tokenizers |-> NoOuts]
    /\ actor = ORIGINAL

AuxUnused == TruncUnused /\ CloneUnused

StreamUnused ==
    /\ dict = [ws |-> {}, fail |-> {}]
    /\ tokenizer = SudachiTokenizer_new(dict)
    /\ stream = NoStream
    /\ pc = "idle"
    /\ streams = 0
    /\ rets = <<>>
    /\ emitted = <<>>
    /\ analysed = <<>>

Init ==
    /\ dict \in Dicts
    /\ tokenizer = SudachiTokenizer_new(dict)
    /\ stream = NoStream
    /\ pc = "idle"
    /\ streams = 0
    /\ rets = <<>>
    /\ emitted = <<>>
    /\ analysed = <<>>
    /\ it = TextChunkIterator_new(<<>>, 0)
    /\ it_log = <<>>
    /\ AuxUnused

\* Tokenizer::token_stream(text); the previous stream, if any, was dropped
TokenStream ==
    /\ pc = "idle"
    /\ streams < MaxStreams
    /\ \E text \in DocTexts : stream' = SudachiTokenStream_new(text)
    /\ streams' = streams + 1
    /\ rets' = <<>>
    /\ emitted' = <<>>
    /\ analysed' = <<>>
    /\ UNCHANGED <<dict, tokenizer, pc, chunk_vars, aux_vars>>

\* the caller enters advance()
AdvanceCall ==
    /\ pc = "idle"
    /\ stream.live
    /\ Len(rets) < MaxAdvance
    /\ pc' = "loop"
    /\ UNCHANGED <<dict, tokenizer, stream, streams, rets, emitted, analysed, chunk_vars, aux_vars>>

\* the loop condition of advance(): has_next(); false leaves the loop and
\* advance() returns false
AdvanceHasNext ==
    /\ pc = "loop"
    /\ LET h == has_next(stream, tokenizer, dict) IN
           /\ stream' = h.stream
           /\ tokenizer' = h.tokenizer
           /\ analysed' = IF h.pulled.some THEN Append(analysed, h.pulled.chunk)
                          ELSE analysed
           /\ IF h.ret
              THEN pc' = "body" /\ rets' = rets
              ELSE pc' = "idle" /\ rets' = Append(rets, FALSE)
    /\ UNCHANGED <<dict, streams, emitted, chunk_vars, aux_vars>>

\* AdvanceBody counting a position for a skipped whitespace morpheme too
AdvanceBody_count_ws ==
    /\ pc = "body"
    /\ LET m == stream.morphemes[stream.index + 1]
           s == [stream EXCEPT !.index = stream.index + 1,
                     !.token_position = wrapping_add(stream.token_position, 1)]
       IN IF IsWhitespace(m)
          THEN /\ stream' = s
               /\ pc' = "loop"
               /\ UNCHANGED <<tokenizer, rets, emitted>>
          ELSE LET t == EmitToken(s, tokenizer, m)
               IN /\ stream' = s
                  /\ tokenizer' = [tokenizer EXCEPT !.token = t]
                  /\ pc' = "idle"
                  /\ rets' = Append(rets, TRUE)
                  /\ emitted' = Append(emitted,
                         [token |-> t, m |-> m, chunk |-> Len(analysed)])
    /\ UNCHANGED <<dict, streams, analysed, chunk_vars, aux_vars>>

\* AdvanceBody without the whitespace filter
AdvanceBody_no_filter ==
    /\ pc = "body"
    /\ LET m == stream.morphemes[stream.index + 1]
           s == [stream EXCEPT !.index = stream.index + 1,
                     !.token_position = wrapping_add(stream.token_position, 1)]
           t == EmitToken(s, tokenizer, m)
       IN /\ stream' = s
          /\ tokenizer' = [tokenizer EXCEPT !.token = t]
          /\ pc' = "idle"
          /\ rets' = Append(rets, TRUE)
          /\ emitted' = Append(emitted,
                 [token |-> t, m |-> m, chunk |-> Len(analysed)])
    /\ UNCHANGED <<dict, streams, analysed, chunk_vars, aux_vars>>

\* the loop body of advance(): a whitespace morpheme continues the loop, any
\* other is written to the token and advance() returns true
AdvanceBody ==
    /\ pc = "body"
    /\ LET m == stream.morphemes[stream.index + 1] IN
           IF IsWhitespace(m)
           THEN /\ stream' = [stream EXCEPT !.index = stream.index + 1]
                /\ pc' = "loop"
                /\ UNCHANGED <<tokenizer, rets, emitted>>
           ELSE LET s == [stream EXCEPT !.index = stream.index + 1,
                              !.token_position = wrapping_add(stream.token_position, 1)]
                    t == EmitToken(s, tokenizer, m)
                IN /\ stream' = s
                   /\ tokenizer' = [tokenizer EXCEPT !.token = t]
                   /\ pc' = "idle"
                   /\ rets' = Append(rets, TRUE)
                   /\ emitted' = Append(emitted,
                          [token |-> t, m |-> m, chunk |-> Len(analysed)])
    /\ UNCHANGED <<dict, streams, analysed, chunk_vars, aux_vars>>

Next == TokenStream \/ AdvanceCall \/ AdvanceHasNext \/ AdvanceBody

Spec == Init /\ [][Next]_vars

(* ------------------ what the token stream did -------------------------- *)

Exhausted == stream.live /\ stream.chunks.start >= StrLen(stream.chunks.text)
ReturnedFalse == pc = "idle" /\ rets # <<>> /\ ~rets[Len(rets)]

\* C4: the stream's splitter is built with max size 49149 = floor(65535/4)*3
\* and every text handed to tokenize (and loaded into the analyzer) is at
\* most 49149 bytes long.
AnalyzerInputCeiling ==
    /\ SUDACHI_MAX_LENGTH = 49149
    /\ stream.live => stream.chunks.max_chunk_size = 49149
    /\ \A k \in 1..Len(analysed) : StrLen(analysed[k]) <= 49149
    /\ StrLen(tokenizer.stateful_tokenizer.input) <= 49149

\* a document longer than the ceiling, one of whose chunks is exactly 49149 bytes
AnalyzerInputCeilingWitness ==
    /\ stream.live
    /\ StrLen(stream.chunks.text) > 49149
    /\ Len(analysed) >= 2
    /\ \E k \in 1..Len(analysed) : StrLen(analysed[k]) = 49149
    /\ StrLen(tokenizer.stateful_tokenizer.input) > 0

\* C7 as claimed: advance() returns false only when the splitter has no
\* chunk left (stated for the runs in which every pulled chunk was non-empty).
FailureIsChunkLocal ==
    (ReturnedFalse /\ \A k \in 1..Len(analysed) : analysed[k] # <<>>) => Exhausted

\* C8 as claimed: no advance() returns true after one that returned false.
ExhaustedIsTerminal ==
    \A i \in 1..Len(rets) : \A j \in i..Len(rets) : ~rets[i] => ~rets[j]

\* C9: the k-th token emitted has position k, and the position counter is
\* the number of tokens emitted so far, at every point of every advance().
PositionNumbering ==
    stream.live =>
        /\ \A k \in 1..Len(emitted) : emitted[k].token.position = k
        /\ stream.token_position = Len(emitted)
        /\ (pc = "idle" /\ rets # <<>> /\ rets[Len(rets)]) =>
               tokenizer.token.position = Len(emitted)

\* tokens of the first and the third chunk, numbered through: the first chunk
\* ended in a whitespace morpheme and the analysis of the second one failed
PositionNumberingWitness ==
    /\ pc = "idle"
    /\ Len(analysed) = 3
    /\ Len(emitted) >= 3
    /\ emitted[1].chunk = 1
    /\ emitted[Len(emitted)].chunk = 3
    /\ \A k \in 1..Len(emitted) : emitted[k].chunk # 2
    /\ analysed[1][Len(analysed[1])].b \in dict.ws
    /\ tokenizer.token.position = Len(emitted)

\* the morpheme advance() is looking at in its loop body
Current == stream.morphemes[stream.index + 1]

\* C10: no exposed token was made from a whitespace morpheme, and the step
\* that skips one changes the morpheme index and nothing else: the token and
\* the position counter stay as they are and nothing is returned.
WhitespaceSuppression ==
    /\ [](\A k \in 1..Len(emitted) :
              /\ ~IsWhitespace(emitted[k].m)
              /\ emitted[k].token.text # <<>>
              /\ emitted[k].token.text[1].b \notin dict.ws)
    /\ [][(pc = "body" /\ IsWhitespace(Current)) =>
              /\ stream' = [stream EXCEPT !.index = stream.index + 1]
              /\ tokenizer' = tokenizer
              /\ emitted' = emitted
              /\ rets' = rets
              /\ pc' = "loop"]_vars

\* a token was exposed right after a whitespace morpheme was skipped
WhitespaceSuppressionWitness ==
    /\ pc = "idle"
    /\ rets # <<>> /\ rets[Len(rets)]
    /\ stream.index >= 2
    /\ IsWhitespace(stream.morphemes[stream.index - 1])
    /\ tokenizer.token = emitted[Len(emitted)].token
    /\ tokenizer.token.offset_from = stream.offset + stream.morphemes[stream.index].begin

\* the total byte length of a sequence of strings
RECURSIVE TotalLen(_)
TotalLen(ss) == IF ss = <<>> THEN 0 ELSE StrLen(ss[1]) + TotalLen(Tail(ss))

RECURSIVE ConcatStrs(_)
ConcatStrs(ss) == IF ss = <<>> THEN <<>> ELSE Concat(ss[1], ConcatStrs(Tail(ss)))

\* the sum of the byte lengths of the chunks pulled before the c-th one
BaseOf(c) == TotalLen(SubSeq(analysed, 1, c - 1))

\* what the analyzer makes of a chunk: no morpheme when it fails
Analysis(d, chunk) ==
    IF do_tokenize_ok(d, chunk)
    THEN SegmentIn(tokenizer.stateful_tokenizer.mode, d, chunk)
    ELSE <<>>

MaxChunks == 4

\* the chunks the splitter returns for a text, at most fuel of them
RECURSIVE SplitAll(_, _)
SplitAll(iter, fuel) ==
    IF fuel = 0 THEN <<>>
    ELSE LET r == TextChunkIterator_next(iter) IN
         IF r.ret.some THEN <<r.ret.chunk>> \o SplitAll(r.it, fuel - 1) ELSE <<>>

\* the non-whitespace morphemes of the chunks cs, each with its chunk's ordinal
RECURSIVE ContentMorphemes(_, _, _)
ContentMorphemes(d, cs, c) ==
    IF cs = <<>> THEN <<>>
    ELSE LET ms == SelectSeq(Analysis(d, cs[1]), LAMBDA m : ~IsWhitespace(m))
         IN [k \in 1..Len(ms) |-> [m |-> ms[k], chunk |-> c]]
            \o ContentMorphemes(d, Tail(cs), c + 1)

Expected ==
    ContentMorphemes(dict,
        SplitAll(TextChunkIterator_new(stream.chunks.text, SUDACHI_MAX_LENGTH), MaxChunks), 1)

\* advance() has just returned false for the first time
FirstFalse ==
    /\ pc = "idle"
    /\ rets # <<>>
    /\ \A i \in 1..Len(rets) : rets[i] <=> i < Len(rets)

\* C11 as claimed: a stream advanced until advance() returns false has
\* emitted exactly the non-whitespace morphemes of all chunks of the text, in
\* order, each once, the token text being the morpheme's surface.
TokenSequenceComplete ==
    FirstFalse =>
        /\ Len(emitted) = Len(Expected)
        /\ \A k \in 1..Len(emitted) :
               /\ emitted[k].m = Expected[k].m
               /\ emitted[k].chunk = Expected[k].chunk
               /\ emitted[k].token.text = Expected[k].m.surface

\* C12: every emitted token has offset_from = B + begin and
\* offset_to = B + end + 1, B being the total length of the chunks pulled
\* before the chunk of its morpheme.
OffsetRemapping ==
    \A k \in 1..Len(emitted) :
        /\ emitted[k].token.offset_from = BaseOf(emitted[k].chunk) + emitted[k].m.begin
        /\ emitted[k].token.offset_to = BaseOf(emitted[k].chunk) + emitted[k].m.end + 1

\* a token of the third chunk, after a chunk whose analysis failed, and a
\* token of a later chunk that does not start its chunk
OffsetRemappingWitness ==
    /\ pc = "idle"
    /\ Len(analysed) = 3
    /\ analysed[2] # <<>> /\ Analysis(dict, analysed[2]) = <<>>
    /\ \E k \in 1..Len(emitted) :
           /\ emitted[k].chunk = 3
           /\ emitted[k].token.offset_from = StrLen(analysed[1]) + StrLen(analysed[2])
           /\ emitted[k].token.offset_from > emitted[k].m.begin

\* the morphemes behind the emitted tokens lie in their chunks, in begin order
MorphemesOrdered ==
    /\ \A k \in 1..Len(emitted) :
           /\ 0 <= emitted[k].m.begin
           /\ emitted[k].m.begin <= emitted[k].m.end
           /\ emitted[k].m.end <= StrLen(analysed[emitted[k].chunk])
    /\ \A k \in 1..(Len(emitted) - 1) :
           emitted[k].chunk = emitted[k + 1].chunk =>
               /\ emitted[k].m.begin <= emitted[k + 1].m.begin
               /\ emitted[k].m.end <= emitted[k + 1].m.end

Pulls == stream.live /\ streams' = streams /\ analysed' # analysed

\* C14: offset is the total length of the chunks pulled before the current
\* one and chunk_size the length of the current one (both 0 before the first
\* pull), whether or not analyses succeeded; a step that pulls no chunk
\* leaves offset as it is.
CursorInvariant ==
    /\ [](stream.live =>
            /\ stream.offset = BaseOf(Len(analysed))
            /\ stream.chunk_size =
                   IF analysed = <<>> THEN 0 ELSE StrLen(analysed[Len(analysed)]))
    /\ [][(stream.live /\ streams' = streams /\ analysed' = analysed) =>
              /\ stream'.offset = stream.offset
              /\ stream'.chunk_size = stream.chunk_size]_vars
    /\ [][Pulls => stream'.offset = stream.offset + stream.chunk_size]_vars

\* the third chunk was pulled after one whose analysis failed, and advance()
\* then found the splitter exhausted
CursorInvariantWitness ==
    /\ ReturnedFalse /\ Exhausted
    /\ Len(analysed) = 3
    /\ analysed[2] # <<>> /\ Analysis(dict, analysed[2]) = <<>>
    /\ stream.offset = StrLen(analysed[1]) + StrLen(analysed[2])
    /\ stream.chunk_size = StrLen(analysed[3])

\* C15 as claimed: every emitted token of a morpheme with
\* 0 <= begin < end <= len(chunk) has 0 <= offset_from < offset_to <= len(text).
TokenOffsetsInText ==
    \A k \in 1..Len(emitted) :
        (/\ 0 <= emitted[k].m.begin
         /\ emitted[k].m.begin < emitted[k].m.end
         /\ emitted[k].m.end <= StrLen(analysed[emitted[k].chunk])) =>
        /\ 0 <= emitted[k].token.offset_from
        /\ emitted[k].token.offset_from < emitted[k].token.offset_to
        /\ emitted[k].token.offset_to <= StrLen(stream.chunks.text)

\* C19: the chunks passed to the analyzer are the text from byte 0 to the
\* splitter's cursor, in order; none is passed before the first advance(); a
\* chunk is pulled only inside advance() with every morpheme of the current
\* chunk consumed, it is the chunk at the cursor, it is loaded into the
\* analyzer, and the morpheme list afterwards holds its morphemes only.
LazyExactlyOnce ==
    /\ [](stream.live =>
            /\ TotalLen(analysed) = stream.chunks.start
            /\ ConcatStrs(analysed) = Slice(stream.chunks.text, 0, stream.chunks.start)
            /\ (rets = <<>> /\ pc = "idle") => analysed = <<>>)
    /\ [][Pulls =>
              /\ pc = "loop"
              /\ stream.index >= Len(stream.morphemes)
              /\ Len(analysed') = Len(analysed) + 1
              /\ analysed'[Len(analysed')] =
                     Slice(stream.chunks.text, stream.chunks.start, stream'.chunks.start)
              /\ tokenizer'.stateful_tokenizer.input = analysed'[Len(analysed')]
              /\ stream'.morphemes = Analysis(dict, analysed'[Len(analysed')])
              /\ stream'.index = 0]_vars

\* the third chunk is being consumed, after a chunk whose analysis failed
\* behind a chunk that had morphemes
LazyExactlyOnceWitness ==
    /\ pc = "idle"
    /\ Len(analysed) = 3
    /\ Analysis(dict, analysed[1]) # <<>>
    /\ analysed[2] # <<>> /\ Analysis(dict, analysed[2]) = <<>>
    /\ stream.morphemes = Analysis(dict, analysed[3])
    /\ stream.index = Len(stream.morphemes)
    /\ ConcatStrs(analysed) = stream.chunks.text

(* ------------------ streams reusing one tokenizer ---------------------- *)

MaxReuse == 2
ReuseSlack == 3

ReuseTexts ==
    {Concat(Concat(h, IF n = 0 THEN <<>> ELSE <<Run(LETTER, n)>>), t) :
        h \in {<<>>, Lit(<<LETTER, SPACE>>)},
        n \in {0, SUDACHI_MAX_LENGTH - ReuseSlack},
        t \in {<<>>, Lit(<<DOT, CR, LF, LETTER, LETTER>>)}}

\* token_stream keeping the position counter of the stream it replaces
TokenStreamReuse_keeps_position ==
    /\ pc = "idle"
    /\ streams < MaxReuse
    /\ \E text \in ReuseTexts :
           stream' = [SudachiTokenStream_new(text) EXCEPT
                         !.token_position =
                             IF stream.live THEN stream.token_position ELSE 0]
    /\ streams' = streams + 1
    /\ rets' = <<>>
    /\ emitted' = <<>>
    /\ analysed' = <<>>
    /\ UNCHANGED <<dict, tokenizer, pc, chunk_vars, aux_vars>>

\* Tokenizer::token_stream(text) on a tokenizer that may have served streams
\* before; the previous stream is dropped wherever it stood
TokenStreamReuse ==
    /\ pc = "idle"
    /\ streams < MaxReuse
    /\ \E text \in ReuseTexts : stream' = SudachiTokenStream_new(text)
    /\ streams' = streams + 1
    /\ rets' = <<>>
    /\ emitted' = <<>>
    /\ analysed' = <<>>
    /\ UNCHANGED <<dict, tokenizer, pc, chunk_vars, aux_vars>>

NextReuse == TokenStreamReuse \/ AdvanceCall \/ AdvanceHasNext \/ AdvanceBody

SpecReuse == Init /\ [][NextReuse]_vars

\* one whole advance() call: the stream and tokenizer after it and its result
RECURSIVE advance(_, _, _)

\* advance() from the point where has_next() has returned h
advance_loop(h, d) ==
    IF ~h.ret THEN [stream |-> h.stream, tokenizer |-> h.tokenizer, ret |-> FALSE]
    ELSE LET m == h.stream.morphemes[h.stream.index + 1] IN
         IF IsWhitespace(m)
         THEN advance([h.stream EXCEPT !.index = h.stream.index + 1], h.tokenizer, d)
         ELSE LET s == [h.stream EXCEPT
                           !.index = h.stream.index + 1,
                           !.token_position = wrapping_add(h.stream.token_position, 1)]
              IN [stream |-> s,
                  tokenizer |-> [h.tokenizer EXCEPT !.token = EmitToken(s, h.tokenizer, m)],
                  ret |-> TRUE]

advance(self, tk, d) ==
    CHOOSE a \in {advance_loop(h, d) : h \in {has_next(self, tk, d)}} : TRUE

\* n advance() calls: the results and the tokens exposed after the true ones
RECURSIVE RunFrom(_, _, _, _)

\* the calls that follow a first call that ended as a
RunAfter(a, d, n) ==
    CHOOSE r \in {[rets |-> <<a.ret>> \o f.rets,
                   tokens |-> (IF a.ret THEN <<a.tokenizer.token>> ELSE <<>>) \o f.tokens] :
                  f \in {RunFrom(a.stream, a.tokenizer, d, n - 1)}} : TRUE

RunFrom(self, tk, d, n) ==
    IF n = 0 THEN [rets |-> <<>>, tokens |-> <<>>]
    ELSE CHOOSE r \in {RunAfter(a, d, n) : a \in {advance(self, tk, d)}} : TRUE

\* the first n advance() calls of a stream over text on a tokenizer never used
RunAlone(text, d, n) ==
    RunFrom(SudachiTokenStream_new(text), SudachiTokenizer_new(d), d, n)

\* C18: every token_stream call yields a stream with offset 0, chunk_size 0,
\* index 0, position counter 0 and no morphemes, whatever was run before; and
\* whatever was run before, the results and tokens of a stream are those of
\* the same calls on a tokenizer never used, the first position being 1.
FreshCursorPerStream ==
    /\ [][streams' # streams =>
              /\ stream'.live
              /\ stream'.offset = 0
              /\ stream'.chunk_size = 0
              /\ stream'.index = 0
              /\ stream'.token_position = 0
              /\ stream'.morphemes = <<>>
              /\ stream'.chunks.start = 0]_vars
    /\ []((stream.live /\ pc = "idle") =>
            LET alone == RunAlone(stream.chunks.text, dict, Len(rets)) IN
                /\ rets = alone.rets
                /\ [k \in 1..Len(emitted) |-> emitted[k].token] = alone.tokens
                /\ emitted # <<>> => emitted[1].token.position = 1)

\* the second stream on a tokenizer, created while the token of the first
\* was still exposed, has emitted tokens of two chunks
FreshCursorPerStreamWitness ==
    /\ streams = 2
    /\ pc = "idle"
    /\ Len(analysed) >= 2
    /\ Len(emitted) >= 2
    /\ emitted[1].token.position = 1
    /\ emitted[Len(emitted)].chunk >= 2
    /\ emitted[Len(emitted)].token = tokenizer.token

(* ------------------- the chunk splitter on its own --------------------- *)

MaxChars == 4
MaxChunkSize == 4
MaxCalls == 5
MaxPad == 1

Alphabet == {Str1(LETTER), Str1(DOT), Str1(LF), Str1(CR), KUTEN}

Texts(n) == {FromChars(cs) : cs \in UNION {[1..k -> Alphabet] : k \in 0..n}}

InitChunk ==
    /\ \E text \in Texts(MaxChars) : \E pad \in {0, MaxPad} :
       \E max_chunk_size \in 0..MaxChunkSize :
           it = TextChunkIterator_new(
                    IF pad = 0 THEN text ELSE Concat(text, <<Run(LETTER, pad)>>),
                    max_chunk_size)
    /\ it_log = <<>>
    /\ StreamUnused
    /\ AuxUnused

IterNext ==
    /\ Len(it_log) < MaxCalls
    /\ LET r == TextChunkIterator_next(it) IN
           /\ it' = r.it
           /\ it_log' = Append(it_log, r.ret)
    /\ UNCHANGED <<stream_vars, aux_vars>>

NextChunk == IterNext

SpecChunk == InitChunk /\ [][NextChunk]_vars

(* ---------------- what the chunk splitter returned --------------------- *)

Returned == SelectSeq(it_log, LAMBDA r : r.some)

RECURSIVE ConcatAll(_)
ConcatAll(rs) ==
    IF rs = <<>> THEN <<>> ELSE Concat(rs[1].chunk, ConcatAll(Tail(rs)))

\* the byte offset in the text where the k-th returned chunk has to start
OffsetOf(k) == StrLen(ConcatAll(SubSeq(Returned, 1, k - 1)))

LastIsNone == it_log # <<>> /\ ~it_log[Len(it_log)].some

\* C1: the returned chunks are consecutive slices of the text, the first at
\* byte 0 and each next one where the previous one ended, and once next()
\* has returned None their concatenation is the text.
ChunkCoverage ==
    /\ \A k \in 1..Len(Returned) :
           Returned[k].chunk =
               Slice(it.text, OffsetOf(k), OffsetOf(k) + StrLen(Returned[k].chunk))
    /\ LastIsNone => ConcatAll(Returned) = it.text

\* a run that ended with None after three chunks, the first shorter than the limit
ChunkCoverageWitness ==
    /\ LastIsNone
    /\ Len(Returned) = 3
    /\ StrLen(Returned[1].chunk) < it.max_chunk_size
    /\ ConcatAll(Returned) = it.text

\* C2 as claimed: with max_chunk_size >= 1 no returned chunk is empty.
NoEmptyChunk ==
    it.max_chunk_size >= 1 =>
        \A k \in 1..Len(Returned) : StrLen(Returned[k].chunk) > 0

\* C3: every returned chunk is at most max_chunk_size bytes long.
ChunkSizeBound ==
    \A k \in 1..Len(Returned) : StrLen(Returned[k].chunk) <= it.max_chunk_size

\* a multi-byte character next to the limit, a hard cut and a tail, all in bound
ChunkSizeBoundWitness ==
    /\ LastIsNone
    /\ Len(Returned) >= 2
    /\ \E k \in 1..Len(Returned) :
           /\ StrLen(Returned[k].chunk) < it.max_chunk_size
           /\ OffsetOf(k) + it.max_chunk_size < StrLen(it.text)
           /\ ~IsCharBoundary(it.text, OffsetOf(k) + it.max_chunk_size)
    /\ StrLen(Returned[Len(Returned)].chunk) = it.max_chunk_size

\* the bytes bs stand right before index i of s
PrecededBy(s, i, bs) ==
    /\ i >= Len(bs)
    /\ \A j \in 1..Len(bs) : ByteAt(s, i - Len(bs) + j - 1) = bs[j]

BoundaryPrefixes ==
    {<<DOT>>, <<DOT, CR>>, <<KUTEN1, KUTEN2, KUTEN3>>, <<KUTEN1, KUTEN2, KUTEN3, CR>>,
     <<LF>>, <<CR, LF, CR>>}

\* the lengths of the prefixes of frag that end at a recognized boundary
BoundaryEnds(frag) ==
    {e \in 1..StrLen(frag) :
        /\ ByteAt(frag, e - 1) = LF
        /\ \E bs \in BoundaryPrefixes : PrecededBy(frag, e - 1, bs)}

MaxOf(S) == CHOOSE x \in S : \A y \in S : y <= x

\* the candidate fragment of the call that returned the k-th chunk
LimitOf(k) == FloorCharBoundary(it.text, OffsetOf(k) + it.max_chunk_size)
FragmentOf(k) == Slice(it.text, OffsetOf(k), LimitOf(k))
Cut(k) == LimitOf(k) < StrLen(it.text)

NoBoundaryFallback ==
    \A k \in 1..Len(Returned) :
        (Cut(k) /\ BoundaryEnds(FragmentOf(k)) = {}) =>
            /\ rfind_end_of_sentence(FragmentOf(k)) = StrLen(FragmentOf(k))
            /\ Returned[k].chunk = FragmentOf(k)

\* C16: every returned chunk starts and ends on a character boundary of the
\* text, and what rfind_end_of_sentence returns for the candidate fragment
\* of a cut is a character boundary of that fragment.
ChunksOnCharBoundaries ==
    \A k \in 1..Len(Returned) :
        /\ IsCharBoundary(it.text, OffsetOf(k))
        /\ IsCharBoundary(it.text, OffsetOf(k) + StrLen(Returned[k].chunk))
        /\ Cut(k) => IsCharBoundary(FragmentOf(k),
                                    rfind_end_of_sentence(FragmentOf(k)))

\* a non-empty chunk that ends before a multi-byte character the raw byte
\* limit falls into
ChunksOnCharBoundariesWitness ==
    \E k \in 1..Len(Returned) :
        /\ StrLen(Returned[k].chunk) > 0
        /\ OffsetOf(k) + it.max_chunk_size < StrLen(it.text)
        /\ ~IsCharBoundary(it.text, OffsetOf(k) + it.max_chunk_size)
        /\ OffsetOf(k) + StrLen(Returned[k].chunk) < OffsetOf(k) + it.max_chunk_size
        /\ Returned[k].chunk = FragmentOf(k)


(* ----------------------- the error-log excerpt ------------------------- *)

EXCERPT_LEN == 100
ELLIPSIS == <<Run(DOT, 3)>>

\* the number of characters of s: the bytes that are not continuation bytes
RECURSIVE CharCount(_)
CharCount(s) ==
    IF s = <<>> THEN 0
    ELSE (IF s[1].b >= 128 /\ s[1].b < 192 THEN 0 ELSE s[1].n) + CharCount(Tail(s))

\* the byte offset after n more characters from byte offset pos (chars().take)
RECURSIVE TakeChars(_, _, _)
TakeChars(s, pos, n) ==
    IF n = 0 \/ pos >= StrLen(s) THEN pos
    ELSE TakeChars(s, pos + CharWidth(ByteAt(s, pos)), n - 1)

truncate_chars(s, len) ==
    IF StrLen(s) > len THEN Concat(Take(s, TakeChars(s, 0, len)), ELLIPSIS)
    ELSE s

MaxAscii == 101
MaxWide == 35

\* j full-width periods
Periods(j) ==
    [k \in 1..(3 * j) |->
        Run(IF k % 3 = 1 THEN KUTEN1 ELSE IF k % 3 = 2 THEN KUTEN2 ELSE KUTEN3, 1)]

\* the texts: letters followed by full-width periods
ExcerptTexts ==
    {(IF i = 0 THEN <<>> ELSE <<Run(LETTER, i)>>) \o Periods(j) :
        i \in 0..MaxAscii, j \in 0..MaxWide}

InitTrunc ==
    /\ excerpt_of \in ExcerptTexts
    /\ excerpt = None
    /\ it = TextChunkIterator_new(<<>>, 0)
    /\ it_log = <<>>
    /\ StreamUnused
    /\ CloneUnused

\* tokenize() fails on the text and logs truncate_chars(text, 100)
LogExcerpt ==
    /\ ~excerpt.some
    /\ excerpt' = [some |-> TRUE, text |-> truncate_chars(excerpt_of, EXCERPT_LEN)]
    /\ UNCHANGED <<excerpt_of, chunk_vars, stream_vars, clone_vars>>

NextTrunc == LogExcerpt

SpecTrunc == InitTrunc /\ [][NextTrunc]_vars

\* C20 as claimed: the excerpt is the first 100 characters followed by "..."
\* when the text has more than 100 characters, and the text itself when it
\* has at most 100 characters, whatever its byte length.
ExcerptByCharacters ==
    excerpt.some =>
        excerpt.text =
            IF CharCount(excerpt_of) > EXCERPT_LEN
            THEN Concat(Take(excerpt_of, TakeChars(excerpt_of, 0, EXCERPT_LEN)), ELLIPSIS)
            ELSE excerpt_of

(* ---------------------- a tokenizer and its clone ---------------------- *)

MaxCloneAdvance == 3

CloneTexts ==
    {Lit(<<LETTER, DOT, SPACE, LETTER>>),
     Concat(<<Run(LETTER, SUDACHI_MAX_LENGTH - 2)>>, Lit(<<DOT, LF, LETTER, DOT>>))}

Modes == {MODE_A, MODE_C}

\* the SudachiTokenizer value of tokenizer i: its analyzer looked up by identity
Deref(i) ==
    [token |-> tks[i].token,
     stateful_tokenizer |-> analyzers[tks[i].stateful_tokenizer],
     debug |-> tks[i].debug]

\* tokenizer i and the analyzer it owns, after a call left it as tk
Stored(i, tk) ==
    /\ tks' = [tks EXCEPT ![i].token = tk.token, ![i].debug = tk.debug]
    /\ analyzers' = [analyzers EXCEPT ![tks[i].stateful_tokenizer] = tk.stateful_tokenizer]

InitClone ==
    /\ dict \in {d \in Dicts : d.fail = {}}
    /\ tokenizer = SudachiTokenizer_new(dict)
    /\ stream = NoStream
    /\ pc = "idle"
    /\ streams = 0
    /\ rets = <<>>
    /\ emitted = <<>>
    /\ analysed = <<>>
    /\ it = TextChunkIterator_new(<<>>, 0)
    /\ it_log = <<>>
    /\ TruncUnused
    /\ analyzers = <<SudachiTokenizer_new(dict).stateful_tokenizer>>
    /\ tks = [i \in Tokenizers |->
                 IF i = ORIGINAL
                 THEN [live |-> TRUE, token |-> SudachiTokenizer_new(dict).token,
                       stateful_tokenizer |-> 1,
                       debug |-> SudachiTokenizer_new(dict).debug]
                 ELSE NoTokenizer]
    /\ tk_streams = [i \in Tokenizers |-> NoStream]
    /\ tk_outs = [i \in Tokenizers |-> NoOuts]
    /\ actor = ORIGINAL

\* clone() handing the original's analyzer to the clone
CloneTokenizer_shared_analyzer ==
    /\ tks[ORIGINAL].live /\ ~tks[CLONE].live
    /\ ~tk_streams[ORIGINAL].live
    /\ LET c == clone(Deref(ORIGINAL)) IN
           /\ analyzers' = analyzers
           /\ tks' = [tks EXCEPT ![CLONE] =
                         [live |-> TRUE, token |-> c.token,
                          stateful_tokenizer |-> tks[ORIGINAL].stateful_tokenizer,
                          debug |-> c.debug]]
    /\ actor' = ORIGINAL
    /\ UNCHANGED <<tk_streams, tk_outs, chunk_vars, stream_vars, trunc_vars>>

\* original.clone(): the clone gets an analyzer of its own
CloneTokenizer ==
    /\ tks[ORIGINAL].live /\ ~tks[CLONE].live
    /\ ~tk_streams[ORIGINAL].live
    /\ LET c == clone(Deref(ORIGINAL)) IN
           /\ analyzers' = Append(analyzers, c.stateful_tokenizer)
           /\ tks' = [tks EXCEPT ![CLONE] =
                         [live |-> TRUE, token |-> c.token,
                          stateful_tokenizer |-> Len(analyzers) + 1,
                          debug |-> c.debug]]
    /\ actor' = ORIGINAL
    /\ UNCHANGED <<tk_streams, tk_outs, chunk_vars, stream_vars, trunc_vars>>

\* set_debug(debug) on a tokenizer no stream borrows
SetDebug ==
    \E i \in Tokenizers, debug \in BOOLEAN :
        /\ tks[i].live /\ ~tk_streams[i].live
        /\ Stored(i, set_debug(Deref(i), debug))
        /\ actor' = i
        /\ UNCHANGED <<tk_streams, tk_outs, chunk_vars, stream_vars, trunc_vars>>

\* set_mode(mode) on a tokenizer no stream borrows
SetMode ==
    \E i \in Tokenizers, mode \in Modes :
        /\ tks[i].live /\ ~tk_streams[i].live
        /\ Stored(i, set_mode(Deref(i), mode))
        /\ actor' = i
        /\ UNCHANGED <<tk_streams, tk_outs, chunk_vars, stream_vars, trunc_vars>>

\* token_stream(text) on a tokenizer no stream borrows
TokenStreamOf ==
    \E i \in Tokenizers, text \in CloneTexts :
        /\ tks[i].live /\ ~tk_streams[i].live
        /\ tk_streams' = [tk_streams EXCEPT ![i] = SudachiTokenStream_new(text)]
        /\ tk_outs' = [tk_outs EXCEPT ![i] = NoOuts]
        /\ actor' = i
        /\ UNCHANGED <<analyzers, tks, chunk_vars, stream_vars, trunc_vars>>

\* one advance() call on the stream of a tokenizer
AdvanceOf ==
    \E i \in Tokenizers :
        /\ tk_streams[i].live
        /\ Len(tk_outs[i].rets) < MaxCloneAdvance
        /\ \E a \in {advance(tk_streams[i], Deref(i), dict)} :
               /\ tk_streams' = [tk_streams EXCEPT ![i] = a.stream]
               /\ Stored(i, a.tokenizer)
               /\ tk_outs' = [tk_outs EXCEPT ![i] =
                     [rets |-> Append(tk_outs[i].rets, a.ret),
                      tokens |-> IF a.ret THEN Append(tk_outs[i].tokens, a.tokenizer.token)
                                 ELSE tk_outs[i].tokens]]
        /\ actor' = i
        /\ UNCHANGED <<chunk_vars, stream_vars, trunc_vars>>

\* the stream of a tokenizer goes out of scope and releases its borrow
DropStream ==
    \E i \in Tokenizers :
        /\ tk_streams[i].live
        /\ tk_streams' = [tk_streams EXCEPT ![i] = NoStream]
        /\ tk_outs' = [tk_outs EXCEPT ![i] = NoOuts]
        /\ actor' = i
        /\ UNCHANGED <<analyzers, tks, chunk_vars, stream_vars, trunc_vars>>

NextClone ==
    CloneTokenizer \/ SetDebug \/ SetMode \/ TokenStreamOf \/ AdvanceOf \/ DropStream

SpecClone == InitClone /\ [][NextClone]_vars

\* C17: clone() gives the clone an analyzer and a token of its own, with the
\* original's mode and debug flag, and leaves the original as it was; every
\* later call on one tokenizer leaves the other's token, debug flag, analyzer
\* state and stream unchanged; and the results and tokens of each stream are
\* those of the same advance() calls on a tokenizer used alone in that mode.
CloneIndependence ==
    /\ [][(~tks[CLONE].live /\ tks'[CLONE].live) =>
              /\ tks'[CLONE].stateful_tokenizer # tks[ORIGINAL].stateful_tokenizer
              /\ tks'[CLONE].token = Token_default
              /\ tks'[CLONE].debug = tks[ORIGINAL].debug
              /\ analyzers'[tks'[CLONE].stateful_tokenizer] =
                     [input |-> <<>>,
                      mode  |-> analyzers[tks[ORIGINAL].stateful_tokenizer].mode,
                      debug |-> tks[ORIGINAL].debug]
              /\ tks'[ORIGINAL] = tks[ORIGINAL]
              /\ analyzers'[tks[ORIGINAL].stateful_tokenizer] =
                     analyzers[tks[ORIGINAL].stateful_tokenizer]]_vars
    /\ [][\A j \in Tokenizers :
              (tks[j].live /\ j # actor') =>
                  /\ tks'[j] = tks[j]
                  /\ analyzers'[tks[j].stateful_tokenizer] =
                         analyzers[tks[j].stateful_tokenizer]
                  /\ tk_streams'[j] = tk_streams[j]
                  /\ tk_outs'[j] = tk_outs[j]]_vars
    /\ [](\A i \in Tokenizers :
              tk_streams[i].live =>
                  tk_outs[i] =
                      RunFrom(SudachiTokenStream_new(tk_streams[i].chunks.text),
                              set_mode(SudachiTokenizer_new(dict),
                                       analyzers[tks[i].stateful_tokenizer].mode),
                              dict, Len(tk_outs[i].rets)))

\* both tokenizers have a stream over the same text that has emitted tokens
\* of two chunks, the clone was made in Mode::C with debug on, and the
\* original was set back to Mode::A with debug off afterwards
CloneIndependenceWitness ==
    /\ tks[ORIGINAL].live /\ tks[CLONE].live
    /\ tk_streams[ORIGINAL].live /\ tk_streams[CLONE].live
    /\ tk_streams[ORIGINAL].chunks.text = tk_streams[CLONE].chunks.text
    /\ analyzers[tks[ORIGINAL].stateful_tokenizer].mode = MODE_A
    /\ analyzers[tks[CLONE].stateful_tokenizer].mode = MODE_C
    /\ ~tks[ORIGINAL].debug /\ tks[CLONE].debug
    /\ analyzers[tks[CLONE].stateful_tokenizer].debug
    /\ Len(tk_outs[ORIGINAL].tokens) = MaxCloneAdvance
    /\ Len(tk_outs[CLONE].tokens) >= 2
    /\ tk_outs[ORIGINAL].tokens[2] # tk_outs[CLONE].tokens[2]
    /\ tk_streams[CLONE].chunks.start > SUDACHI_MAX_LENGTH

=========================================================================
